---- MODULE Spec2Model ----
(***************************************************************************)
(* Model of the finance ledger in src/app.py: the transactions table       *)
(* and the handlers that change it (add_transaction, delete_transaction,   *)
(* import_export), the balance pass update_all_balances, and the export    *)
(* formatter export_excel.                                                 *)
(*                                                                         *)
(* Money is kept in hundredths (an amount of 2.5 is the integer 250), so   *)
(* that the two-decimal export format is exact.  Text is a sequence of     *)
(* one-character strings.  The Cyrillic literals of the source are         *)
(* transliterated (dohod, d, rashod, r), since the module is ASCII.        *)
(* Requests are served one at a time.                                      *)
(***************************************************************************)
EXTENDS Integers, Sequences, FiniteSets, TLC

VARIABLES
    transactions,   \* rows of the table transactions
    seq,            \* AUTOINCREMENT counter of the table (largest id ever given)
    today,          \* CURRENT_DATE, as <<year, month, day>>; all requests of a
                    \* behaviour are served on one day
    pc,             \* "idle", or "rows" while import_export walks df.iterrows()
    left,           \* rows of the imported table not yet visited
    index,          \* index of the row visited last, -1 before the first
    row,            \* the row visited last
    columns,        \* df.columns of the table the request read, {} if it read none
    skipped,        \* rows the loop passed over at its first continue
    added_count,    \* import_export's added_count
    errors,         \* import_export's errors list
    batch,          \* ids inserted by the import in progress
    calls,          \* update_all_balances calls made by the current request
    response        \* what the last request returned

vars == <<transactions, seq, today, pc, left, index, row, columns, skipped,
          added_count, errors, batch, calls, response>>

(***************************************************************************)
(* Bounds of the model.                                                    *)
(***************************************************************************)
\* Most rows ever inserted (the AUTOINCREMENT counter stops there).
MaxId == 2
\* Most rows of one imported table.
MaxRows == 2

(***************************************************************************)
(* Text helpers.                                                           *)
(***************************************************************************)
Digits == {"0", "1", "2", "3", "4", "5", "6", "7", "8", "9"}

DigitVal(c) ==
    CASE c = "0" -> 0 [] c = "1" -> 1 [] c = "2" -> 2 [] c = "3" -> 3
      [] c = "4" -> 4 [] c = "5" -> 5 [] c = "6" -> 6 [] c = "7" -> 7
      [] c = "8" -> 8 [] c = "9" -> 9

DigitChar(n) ==
    CASE n = 0 -> "0" [] n = 1 -> "1" [] n = 2 -> "2" [] n = 3 -> "3"
      [] n = 4 -> "4" [] n = 5 -> "5" [] n = 6 -> "6" [] n = 7 -> "7"
      [] n = 8 -> "8" [] n = 9 -> "9"

\* str.lower() on the letters the model's cells use
LowerChar(c) ==
    CASE c = "I" -> "i" [] c = "N" -> "n" [] c = "C" -> "c" [] c = "O" -> "o"
      [] c = "M" -> "m" [] c = "E" -> "e" [] c = "D" -> "d" [] c = "R" -> "r"
      [] c = "A" -> "a" [] c = "X" -> "x" [] c = "P" -> "p" [] c = "S" -> "s"
      [] c = "H" -> "h"
      [] OTHER -> c

Lower(s) == [i \in DOMAIN s |-> LowerChar(s[i])]

\* str.replace(a, b) for one-character a and b
Replace(s, a, b) == [i \in DOMAIN s |-> IF s[i] = a THEN b ELSE s[i]]

\* str.replace(a, '')
Remove(s, a) == SelectSeq(s, LAMBDA c : c # a)

RECURSIVE LStrip(_)
LStrip(s) == IF s # <<>> /\ Head(s) = " " THEN LStrip(Tail(s)) ELSE s

RECURSIVE RStrip(_)
RStrip(s) ==
    IF s # <<>> /\ s[Len(s)] = " " THEN RStrip(SubSeq(s, 1, Len(s) - 1)) ELSE s

\* str.strip()
Strip(s) == RStrip(LStrip(s))

RECURSIVE DigitsValue(_)
DigitsValue(ds) ==
    IF ds = <<>> THEN 0
    ELSE DigitsValue(SubSeq(ds, 1, Len(ds) - 1)) * 10 + DigitVal(ds[Len(ds)])

RECURSIVE NatDigits(_)
NatDigits(n) ==
    IF n < 10 THEN <<DigitChar(n)>>
    ELSE Append(NatDigits(n \div 10), DigitChar(n % 10))

Count(s, c) == Cardinality({i \in DOMAIN s : s[i] = c})

(***************************************************************************)
(* float(text): the value in hundredths, a NaN, or a ValueError.           *)
(***************************************************************************)
FloatError == [ok |-> FALSE, nan |-> FALSE, v |-> 0]

Unsigned(body) ==
    LET dot  == IF Count(body, ".") = 1
                THEN CHOOSE i \in DOMAIN body : body[i] = "." ELSE Len(body) + 1
        ip   == SubSeq(body, 1, dot - 1)
        fp   == SubSeq(body, dot + 1, Len(body))
        frac == IF fp = <<>> THEN 0
                ELSE IF Len(fp) = 1 THEN DigitVal(fp[1]) * 10
                ELSE DigitVal(fp[1]) * 10 + DigitVal(fp[2])
    IN  IF /\ body # <<>>
           /\ \A i \in DOMAIN body : body[i] \in Digits \cup {"."}
           /\ Count(body, ".") <= 1
           /\ \E i \in DOMAIN body : body[i] \in Digits
        THEN [ok |-> TRUE, nan |-> FALSE, v |-> DigitsValue(ip) * 100 + frac]
        ELSE IF Lower(body) = <<"n", "a", "n">>
        THEN [ok |-> TRUE, nan |-> TRUE, v |-> 0]
        ELSE FloatError

PyFloat(s) ==
    LET t      == Strip(s)
        signed == t # <<>> /\ t[1] \in {"-", "+"}
        u      == Unsigned(IF signed THEN Tail(t) ELSE t)
    IN  IF signed /\ t[1] = "-" THEN [u EXCEPT !.v = 0 - u.v] ELSE u

\* f"{x:.2f}" of a value in hundredths
Format2f(x) ==
    LET a == IF x < 0 THEN 0 - x ELSE x
        body == NatDigits(a \div 100) \o <<".">>
                \o <<DigitChar((a % 100) \div 10), DigitChar(a % 10)>>
    IN  IF x < 0 THEN <<"-">> \o body ELSE body

\* str(x) of a float held in hundredths: 5.0, 2.5, 0.25
StrFloat(x) ==
    LET a == IF x < 0 THEN 0 - x ELSE x
        frac == IF a % 10 = 0 THEN <<DigitChar((a % 100) \div 10)>>
                ELSE <<DigitChar((a % 100) \div 10), DigitChar(a % 10)>>
        body == NatDigits(a \div 100) \o <<".">> \o frac
    IN  IF x < 0 THEN <<"-">> \o body ELSE body

(***************************************************************************)
(* Dates.  A stored date is the text YYYY-MM-DD, held as <<y, m, d>>; the  *)
(* text order of zero-padded dates is the order of the triples.            *)
(***************************************************************************)
DateLess(a, b) ==
    \/ a[1] < b[1]
    \/ a[1] = b[1] /\ a[2] < b[2]
    \/ a[1] = b[1] /\ a[2] = b[2] /\ a[3] < b[3]

IsLeap(y) == (y % 4 = 0 /\ y % 100 # 0) \/ y % 400 = 0

DaysInMonth(y, m) ==
    IF m = 2 THEN (IF IsLeap(y) THEN 29 ELSE 28)
    ELSE IF m \in {4, 6, 9, 11} THEN 30 ELSE 31

NoDate == <<0, 0, 0>>

\* the three fields of a text cut at the separator sep, or <<>> when the
\* text is not digits, sep, digits, sep, digits
Fields(s, sep) ==
    LET P == {i \in DOMAIN s : s[i] = sep}
    IN  IF Cardinality(P) # 2 THEN <<>>
        ELSE LET p1 == CHOOSE i \in P : \A j \in P : i <= j
                 p2 == CHOOSE i \in P : \A j \in P : j <= i
                 fs == <<SubSeq(s, 1, p1 - 1), SubSeq(s, p1 + 1, p2 - 1),
                         SubSeq(s, p2 + 1, Len(s))>>
             IN  IF \A k \in 1..3 :
                        fs[k] # <<>> /\ \A i \in DOMAIN fs[k] : fs[k][i] \in Digits
                 THEN fs ELSE <<>>

\* datetime.strptime(s, fmt) for the formats of import_export; yearFirst is
\* %Y<sep>%m<sep>%d, otherwise %d<sep>%m<sep>%Y.  NoDate is the ValueError.
Strptime(s, sep, yearFirst) ==
    LET fs == Fields(s, sep)
    IN  IF fs = <<>> THEN NoDate
        ELSE LET yt == IF yearFirst THEN fs[1] ELSE fs[3]
                 dt == IF yearFirst THEN fs[3] ELSE fs[1]
                 y  == DigitsValue(yt)
                 m  == DigitsValue(fs[2])
                 d  == DigitsValue(dt)
             IN  IF /\ Len(yt) = 4
                    /\ Len(fs[2]) <= 2 /\ Len(dt) <= 2
                    /\ y >= 1 /\ m \in 1..12
                    /\ d >= 1 /\ d <= DaysInMonth(y, m)
                 THEN <<y, m, d>> ELSE NoDate

\* the for/else of import_export: the first format that parses wins
ParseDateText(s) ==
    LET t  == Strip(s)
        a1 == Strptime(t, ".", FALSE)
        a2 == Strptime(t, "-", TRUE)
        a3 == Strptime(t, "/", FALSE)
        a4 == Strptime(t, "-", FALSE)
    IN  IF a1 # NoDate THEN a1
        ELSE IF a2 # NoDate THEN a2
        ELSE IF a3 # NoDate THEN a3
        ELSE a4

(***************************************************************************)
(* The table.                                                              *)
(***************************************************************************)
RowLess(a, b) == DateLess(a.date, b.date) \/ (a.date = b.date /\ a.id < b.id)

\* A variant of the query that forgets the date: ORDER BY id ASC.
RECURSIVE OrderByIdOnly(_)
OrderByIdOnly(T) ==
    IF T = {} THEN <<>>
    ELSE LET first == CHOOSE r \in T : \A o \in T : r.id <= o.id
         IN  <<first>> \o OrderByIdOnly(T \ {first})

\* SELECT * FROM transactions ORDER BY date ASC, id ASC
RECURSIVE OrderByDateId(_)
OrderByDateId(T) ==
    IF T = {} THEN <<>>
    ELSE LET first == CHOOSE r \in T : \A o \in T \ {r} : RowLess(r, o)
         IN  <<first>> \o OrderByDateId(T \ {first})

\* A variant of the statement that writes the wrong column: SET amount = ?.
UpdateBalanceWrongColumn(T, b, id) ==
    {IF r.id = id THEN [r EXCEPT !.amount = b] ELSE r : r \in T}

\* UPDATE transactions SET balance_after = ? WHERE id = ?
UpdateBalance(T, b, id) ==
    {IF r.id = id THEN [r EXCEPT !.balance_after = b] ELSE r : r \in T}

\* the loop of update_all_balances over the fetched rows
RECURSIVE BalanceLoop(_, _, _)
BalanceLoop(T, fetched, current_balance) ==
    IF fetched = <<>> THEN T
    ELSE LET trans == Head(fetched)
             nb    == IF trans.type = "income"
                      THEN current_balance + trans.amount
                      ELSE current_balance - trans.amount
         IN  BalanceLoop(UpdateBalance(T, nb, trans.id), Tail(fetched), nb)

\* SELECT balance_after FROM transactions ORDER BY id DESC LIMIT 1, or 0
LastBalance(T) ==
    IF T = {} THEN 0
    ELSE (CHOOSE r \in T : \A o \in T : o.id <= r.id).balance_after

\* A variant of the pass that starts from the last stored balance, as
\* add_transaction does, and not from 0.
UpdateAllBalancesCarry(T) == BalanceLoop(T, OrderByDateId(T), LastBalance(T))

UpdateAllBalances(T) == BalanceLoop(T, OrderByDateId(T), 0)

RECURSIVE SumAmounts(_)
SumAmounts(T) ==
    IF T = {} THEN 0
    ELSE LET r == CHOOSE x \in T : TRUE IN r.amount + SumAmounts(T \ {r})

\* the totals of index
TotalIncome(T) == SumAmounts({r \in T : r.type = "income"})
TotalExpense(T) == SumAmounts({r \in T : r.type = "expense"})
Balance(T) == TotalIncome(T) - TotalExpense(T)

\* the CHECK and NOT NULL constraints of the table (a NaN is bound as NULL)
InsertAllowed(type, nan) == type \in {"income", "expense"} /\ ~nan

NewRow(id, type, category, amount, date, description, balance_after) ==
    [id |-> id, type |-> type, category |-> category, amount |-> amount,
     date |-> date, description |-> description, balance_after |-> balance_after]

(***************************************************************************)
(* Cells of an imported table, as pandas hands them to import_export.      *)
(***************************************************************************)
Nan == [kind |-> "nan", s |-> <<>>, v |-> 0, d |-> NoDate]
Text(s) == [kind |-> "str", s |-> s, v |-> 0, d |-> NoDate]
Num(v) == [kind |-> "num", s |-> <<>>, v |-> v, d |-> NoDate]
Timestamp(d) == [kind |-> "ts", s |-> <<>>, v |-> 0, d |-> d]

\* pd.isna(cell)
IsNa(c) == c.kind = "nan"

\* str(cell)
Str(c) ==
    CASE c.kind = "str" -> c.s
      [] c.kind = "num" -> StrFloat(c.v)
      [] c.kind = "nan" -> <<"n", "a", "n">>

RequiredColumns == {"Date", "Type", "Category", "Amount"}

\* A variant of the check with any() for all().
HasAnyRequiredColumn(cols) == \E col \in RequiredColumns : col \in cols

\* all(col in df.columns for col in required_columns)
HasRequiredColumns(cols) == RequiredColumns \subseteq cols

IncomeTokens == {<<"d", "o", "h", "o", "d">>, <<"i", "n", "c", "o", "m", "e">>, <<"d">>}
ExpenseTokens == {<<"r", "a", "s", "h", "o", "d">>,
                  <<"e", "x", "p", "e", "n", "s", "e">>, <<"r">>}

\* amount_str_clean of import_export
CleanAmount(c) == Remove(Remove(Replace(Str(c), ",", "."), "-"), " ")

RowSkip == [kind |-> "skip"]
RowError(msg) == [kind |-> "error", msg |-> msg]

\* The try block of the for loop of import_export for row r of a table with
\* columns cols: what the row comes to.
RowTry(r, cols) ==
    LET date_value == r.Date
        date_str   == IF date_value.kind = "str"
                      THEN ParseDateText(date_value.s) ELSE date_value.d
        type_value == Lower(Strip(Str(r.Type)))
        amount     == PyFloat(CleanAmount(r.Amount))
        description == IF "Description" \notin cols \/ IsNa(r.Description)
                       THEN <<>> ELSE Strip(Str(r.Description))
    IN  IF date_value.kind = "str" /\ date_str = NoDate
        THEN RowError("date_format")
        ELSE IF date_value.kind \notin {"str", "ts"}
        THEN RowError("date_type")
        ELSE IF type_value \notin IncomeTokens \cup ExpenseTokens
        THEN RowError("type")
        ELSE IF ~amount.ok
        THEN RowError("amount")
        ELSE IF ~InsertAllowed(IF type_value \in IncomeTokens THEN "income" ELSE "expense",
                                amount.nan)
        THEN RowError("exception")
        ELSE [kind |-> "insert",
              date |-> date_str,
              type |-> IF type_value \in IncomeTokens THEN "income" ELSE "expense",
              category |-> Strip(Str(r.Category)),
              amount |-> amount.v,
              description |-> description]

\* A variant of the loop body whose first test looks at Date alone.
RowOutcomeDateOnly(r, cols) == IF IsNa(r.Date) THEN RowSkip ELSE RowTry(r, cols)

\* the body of the for loop of import_export, rows with an empty Date or
\* Amount passed over first
RowOutcome(r, cols) ==
    IF IsNa(r.Date) \/ IsNa(r.Amount) THEN RowSkip ELSE RowTry(r, cols)

(***************************************************************************)
(* export_excel.                                                           *)
(***************************************************************************)
Pad2(n) == IF n < 10 THEN <<"0">> \o NatDigits(n) ELSE NatDigits(n)

\* strftime('%d.%m.%Y') of a stored date
FormatDate(d) == Pad2(d[3]) \o <<".">> \o Pad2(d[2]) \o <<".">> \o NatDigits(d[1])

\* amount_display of export_excel
AmountDisplay(t) ==
    IF t.type = "expense" THEN <<"-">> \o Format2f(t.amount) ELSE Format2f(t.amount)

ExportRow(t) ==
    [Date |-> FormatDate(t.date),
     Type |-> IF t.type = "income" THEN "Dohod" ELSE "Rashod",
     Category |-> t.category,
     Amount |-> AmountDisplay(t),
     Description |-> t.description,
     Balance |-> Format2f(t.balance_after)]

\* export_data of export_excel
ExportData(T) ==
    LET rows == OrderByDateId(T) IN [i \in DOMAIN rows |-> ExportRow(rows[i])]

(***************************************************************************)
(* Inputs: the cells a table may hold and the fields a form may carry.     *)
(***************************************************************************)
D15 == Text(<<"1", "5", ".", "0", "1", ".", "2", "0", "2", "5">>)
D31Feb == Text(<<"3", "1", ".", "0", "2", ".", "2", "0", "2", "5">>)
D17 == Timestamp(<<2025, 1, 17>>)
Income == Text(<<"I", "n", "c", "o", "m", "e">>)
Rashod == Text(<<" ", "R">>)
Cash == Text(<<"c", "a", "s", "h">>)
Food == Text(<<" ", "f">>)
Note == Text(<<"x", " ">>)

TableRow(date, type, amount, description) ==
    [Date |-> date, Type |-> type, Category |-> Food, Amount |-> amount,
     Description |-> description]

\* the rows an imported table is made of
Rows ==
    {TableRow(D15, Income, Num(-500), Nan),
     TableRow(D17, Rashod, Text(<<"5", ",", "0", "-">>), Note),
     TableRow(D15, Rashod, Text(<<"0">>), Nan),
     TableRow(Nan, Income, Num(500), Note),
     TableRow(D31Feb, Cash, Nan, Nan),
     TableRow(D31Feb, Cash, Text(<<"a", "b", "c">>), Nan),
     TableRow(D17, Cash, Text(<<"a", "b", "c">>), Note),
     TableRow(D15, Income, Text(<<"a", "b", "c">>), Nan),
     TableRow(D17, Rashod, Text(<<"N", "A", "N">>), Nan)}

NoRow ==
    [Date |-> Nan, Type |-> Nan, Category |-> Nan, Amount |-> Nan,
     Description |-> Nan]

Table(readable, cols, n) == [readable |-> readable, columns |-> cols, rows |-> n]

\* the files posted to /import_export: one that read_excel cannot read, two
\* tables without a required column, tables of up to MaxRows rows with the
\* optional column, and a table of one row without it
Files ==
    {Table(FALSE, {}, 0),
     Table(TRUE, RequiredColumns \ {"Amount"}, 1),
     Table(TRUE, {"Date", "Description"}, MaxRows)}
    \cup {Table(TRUE, RequiredColumns \cup {"Description"}, n) : n \in 0..MaxRows}
    \cup {Table(TRUE, RequiredColumns, 1)}

Form(type, amount) ==
    [amount |-> amount, type |-> type, category |-> <<"f">>, description |-> <<>>]

\* the forms posted to /add
Forms ==
    {Form("income", <<"5">>), Form("expense", <<"5">>), Form("income", <<"-", "5">>),
     Form("transfer", <<"5">>), Form("income", <<"5", ",", "0">>),
     Form("expense", <<"n", "a", "n">>)}

Reply(kind) == [kind |-> kind, count |-> 0, errors |-> <<>>, rows |-> <<>>]

(***************************************************************************)
(* The state after init_and_update_balances on a new database.             *)
(***************************************************************************)
Init ==
    /\ transactions = {}
    /\ seq = 0
    /\ today = <<2025, 1, 16>>
    /\ pc = "idle"
    /\ left = 0
    /\ index = -1
    /\ row = NoRow
    /\ columns = {}
    /\ skipped = 0
    /\ added_count = 0
    /\ errors = <<>>
    /\ batch = {}
    /\ calls = 0
    /\ response = Reply("none")

\* the locals of import_export, gone when another request is served
NoImport ==
    /\ pc' = "idle"
    /\ left' = 0
    /\ index' = -1
    /\ row' = NoRow
    /\ skipped' = 0
    /\ added_count' = 0
    /\ errors' = <<>>
    /\ batch' = {}

(***************************************************************************)
(* POST /add                                                               *)
(***************************************************************************)
AddTransaction(form) ==
    LET amount == PyFloat(form.amount)
        type_  == form.type
        current_balance == LastBalance(transactions)
        new_balance == IF type_ = "income" THEN current_balance + amount.v
                       ELSE current_balance - amount.v
        stored == amount.ok /\ InsertAllowed(type_, amount.nan)
    IN  /\ pc = "idle"
        /\ stored => seq < MaxId
        /\ IF stored
           THEN /\ transactions' = transactions \cup
                       {NewRow(seq + 1, type_, form.category, amount.v, today,
                               form.description, new_balance)}
                /\ seq' = seq + 1
                /\ response' = Reply("redirect_index")
           ELSE /\ UNCHANGED <<transactions, seq>>
                /\ response' = Reply("error_500")
        /\ calls' = 0
        /\ columns' = {}
        /\ NoImport
        /\ UNCHANGED today

(***************************************************************************)
(* GET /delete/<id>                                                        *)
(***************************************************************************)
DeleteRow(T, transaction_id) == {r \in T : r.id # transaction_id}

DeleteTransaction(transaction_id) ==
    /\ pc = "idle"
    /\ transactions' = UpdateAllBalances(DeleteRow(transactions, transaction_id))
    /\ calls' = 1
    /\ response' = Reply("redirect_history")
    /\ columns' = {}
    /\ NoImport
    /\ UNCHANGED <<seq, today>>

(***************************************************************************)
(* GET /export                                                             *)
(***************************************************************************)
ExportExcel ==
    /\ pc = "idle"
    /\ response' = [Reply("export") EXCEPT !.rows = ExportData(transactions)]
    /\ calls' = 0
    /\ columns' = {}
    /\ NoImport
    /\ UNCHANGED <<transactions, seq, today>>

(***************************************************************************)
(* POST /import_export                                                     *)
(***************************************************************************)
\* pd.read_excel and the column check
ImportStart(file) ==
    /\ pc = "idle"
    /\ calls' = 0
    /\ UNCHANGED <<transactions, seq, today>>
    /\ columns' = IF file.readable THEN file.columns ELSE {}
    /\ IF ~file.readable
       THEN response' = Reply("import_exception") /\ NoImport
       ELSE IF ~HasRequiredColumns(file.columns)
       THEN response' = Reply("import_columns_error") /\ NoImport
       ELSE /\ pc' = "rows"
            /\ left' = file.rows
            /\ index' = -1
            /\ row' = NoRow
            /\ skipped' = 0
            /\ added_count' = 0
            /\ errors' = <<>>
            /\ batch' = {}
            /\ response' = Reply("pending")

\* A variant that recomputes the balances after each inserted row.
ImportInsertRecompute(T, id, out) ==
    UpdateAllBalances(T \cup {NewRow(id, out.type, out.category, out.amount,
                                     out.date, out.description, 0)})

\* INSERT INTO transactions (...) VALUES (?, ?, ?, ?, ?, 0)
ImportInsert(T, id, out) ==
    T \cup {NewRow(id, out.type, out.category, out.amount, out.date,
                   out.description, 0)}

\* f"Stroka {index + 2}: ..."
ErrorLine(i, msg) == [line |-> i + 2, msg |-> msg]

\* one iteration of for index, row in df.iterrows()
ImportRow(r) ==
    LET out == RowOutcome(r, columns)
    IN  /\ pc = "rows"
        /\ left > 0
        /\ out.kind = "insert" => seq < MaxId
        /\ left' = left - 1
        /\ index' = index + 1
        /\ row' = r
        /\ CASE out.kind = "skip" ->
                  /\ skipped' = skipped + 1
                  /\ UNCHANGED <<transactions, seq, added_count, errors, batch>>
             [] out.kind = "error" ->
                  /\ errors' = Append(errors, ErrorLine(index + 1, out.msg))
                  /\ UNCHANGED <<transactions, seq, added_count, skipped, batch>>
             [] out.kind = "insert" ->
                  /\ transactions' = ImportInsert(transactions, seq + 1, out)
                  /\ seq' = seq + 1
                  /\ added_count' = added_count + 1
                  /\ batch' = batch \cup {seq + 1}
                  /\ UNCHANGED <<errors, skipped>>
        /\ UNCHANGED <<today, pc, columns, calls, response>>

\* after the loop: db.commit(), update_all_balances(), the success page
ImportFinish ==
    /\ pc = "rows"
    /\ left = 0
    /\ transactions' = UpdateAllBalances(transactions)
    /\ calls' = calls + 1
    /\ response' = [Reply("import_success") EXCEPT
                        !.count = added_count, !.errors = errors]
    /\ columns' = {}
    /\ NoImport
    /\ UNCHANGED <<seq, today>>

(***************************************************************************)
(* The process is started again: init_and_update_balances.                 *)
(***************************************************************************)
InitAndUpdateBalances ==
    /\ pc = "idle"
    /\ transactions' = UpdateAllBalances(transactions)
    /\ calls' = 1
    /\ response' = Reply("none")
    /\ columns' = {}
    /\ NoImport
    /\ UNCHANGED <<seq, today>>

Next ==
    \/ \E form \in Forms : AddTransaction(form)
    \/ \E id \in 1..MaxId : DeleteTransaction(id)
    \/ ExportExcel
    \/ \E file \in Files : ImportStart(file)
    \/ \E r \in Rows : ImportRow(r)
    \/ ImportFinish
    \/ InitAndUpdateBalances

Spec == Init /\ [][Next]_vars

(***************************************************************************)
(* Vocabulary of the properties.                                           *)
(***************************************************************************)
Signed(r) == IF r.type = "income" THEN r.amount ELSE 0 - r.amount

RECURSIVE SumSigned(_)
SumSigned(S) ==
    IF S = {} THEN 0
    ELSE LET r == CHOOSE x \in S : TRUE IN Signed(r) + SumSigned(S \ {r})

\* the running balance of r: the signed amounts of the rows up to r
RunningBalance(T, r) == SumSigned({o \in T : o = r \/ RowLess(o, r)})

Consistent(T) == \A r \in T : r.balance_after = RunningBalance(T, r)

IsLast(T, r) == r \in T /\ \A o \in T \ {r} : RowLess(o, r)

Ids(T) == {r.id : r \in T}

RowOf(T, id) == CHOOSE r \in T : r.id = id

SameButBalance(a, b) ==
    /\ a.id = b.id /\ a.type = b.type /\ a.category = b.category
    /\ a.amount = b.amount /\ a.date = b.date /\ a.description = b.description

RowStep == pc = "rows" /\ pc' = "rows"
FinishStep == pc = "rows" /\ pc' = "idle"

(***************************************************************************)
(* C1.  After every completed mutating operation every stored record's     *)
(* balance_after is the sum of the signed amounts of the records up to it  *)
(* in (date, id) order.                                                    *)
(***************************************************************************)
C1_BalancesConsistent == pc = "idle" => Consistent(transactions)

C3_DeleteShifts ==
    [][response'.kind = "redirect_history" =>
          \A d \in transactions :
              (d.id \notin Ids(transactions') /\ ~IsLast(transactions, d)) =>
                  \A r \in transactions :
                      RowLess(d, r) =>
                          RowOf(transactions', r.id).balance_after
                              = r.balance_after - Signed(d)]_vars

(***************************************************************************)
(* C4.  update_all_balances is idempotent: run on any store, stale or      *)
(* with placeholders, a second run changes nothing; and a store it has     *)
(* just been run on is left as it is by another run.                       *)
(***************************************************************************)
C4_Idempotent ==
    LET once == UpdateAllBalances(transactions)
    IN  /\ UpdateAllBalances(once) = once
        /\ calls >= 1 => once = transactions

\* the pass has just run on two records and left a balance that is not 0
C4_Witness ==
    /\ calls = 1
    /\ Cardinality(transactions) = 2
    /\ \A r \in transactions : r.balance_after # 0

(***************************************************************************)
(* C5.  Every stored record has amount > 0.                                *)
(***************************************************************************)
C5_AmountsPositive == \A r \in transactions : r.amount > 0

(***************************************************************************)
(* C6.  During an import every valid row is inserted with balance_after 0  *)
(* and nothing else in the table changes between rows;                     *)
(* update_all_balances runs exactly once, after the last row; after it no  *)
(* imported record differs from its running balance.                       *)
(***************************************************************************)
C6_OneRecomputeAfterBatch ==
    [][/\ RowStep =>
              /\ calls = 0 /\ calls' = 0
              /\ transactions \subseteq transactions'
              /\ \A r \in transactions' \ transactions : r.balance_after = 0
       /\ FinishStep =>
              /\ left = 0
              /\ calls = 0 /\ calls' = 1
              /\ \A r \in transactions' :
                     r.id \in batch =>
                         r.balance_after = RunningBalance(transactions', r)]_vars

\* an import of two records is over, one pass has run, and one of the
\* records keeps the 0 because its running balance is 0
C6_Witness ==
    /\ response.kind = "import_success"
    /\ response.count = 2
    /\ calls = 1
    /\ \E r \in transactions : r.amount # 0 /\ r.balance_after = 0
    /\ \E r \in transactions : r.balance_after # 0

(***************************************************************************)
(* C7.  Rows are validated one by one: a row with an empty Date or Amount  *)
(* adds nothing, a row with a bad date, type or amount adds one error and  *)
(* no record, any other row is inserted whatever happened to the rows      *)
(* before it; the reported count is the number of records inserted, and    *)
(* inserted + errors + skipped is the number of rows.                      *)
(***************************************************************************)
BadDate(c) == c \notin {D15, D17}
BadType(c) == c \notin {Income, Rashod}
BadAmount(c) == c \in {Text(<<"a", "b", "c">>), Text(<<"N", "A", "N">>)}

Expected(r) ==
    IF r.Date = Nan \/ r.Amount = Nan THEN "skip"
    ELSE IF BadDate(r.Date) \/ BadType(r.Type) \/ BadAmount(r.Amount) THEN "error"
    ELSE "insert"

C7_RowsIndependent ==
    [][/\ RowStep =>
              /\ Expected(row') = "skip" =>
                     /\ transactions' = transactions
                     /\ errors' = errors
                     /\ added_count' = added_count
                     /\ skipped' = skipped + 1
              /\ Expected(row') = "error" =>
                     /\ transactions' = transactions
                     /\ Len(errors') = Len(errors) + 1
                     /\ SubSeq(errors', 1, Len(errors)) = errors
                     /\ errors'[Len(errors')].line = index' + 2
                     /\ added_count' = added_count
                     /\ skipped' = skipped
              /\ Expected(row') = "insert" =>
                     /\ transactions \subseteq transactions'
                     /\ Cardinality(transactions') = Cardinality(transactions) + 1
                     /\ errors' = errors
                     /\ added_count' = added_count + 1
                     /\ skipped' = skipped
       /\ FinishStep =>
              /\ response'.count = Cardinality(batch)
              /\ batch \subseteq Ids(transactions')
              /\ response'.errors = errors
              /\ response'.count + Len(response'.errors) + skipped = index + 1]_vars

\* partial success: the first row failed, the second was inserted
C7_Witness ==
    /\ response.kind = "import_success"
    /\ response.count = 1
    /\ Len(response.errors) = 1
    /\ response.errors[1].line = 2

(***************************************************************************)
(* C8.  A table without one of the required columns aborts the import      *)
(* before any row: the table is left as it was, update_all_balances is     *)
(* not run and the caller gets the error.                                  *)
(***************************************************************************)
C8_MissingColumnsAbort ==
    [][(columns' # {} /\ ~(RequiredColumns \subseteq columns')) =>
          /\ response'.kind = "import_columns_error"
          /\ pc' = "idle"
          /\ calls' = 0
          /\ transactions' = transactions
          /\ seq' = seq]_vars

\* the error came back with records in the table
C8_Witness ==
    /\ response.kind = "import_columns_error"
    /\ columns # {}
    /\ transactions # {}

(***************************************************************************)
(* C9.  The signed amount export_excel writes for a record starts with     *)
(* "-" exactly when the record is an expense.                              *)
(***************************************************************************)
C9_MinusIffExpense ==
    response.kind = "export" =>
        \A i \in DOMAIN response.rows :
            (Head(response.rows[i].Amount) = "-") <=> (response.rows[i].Type = "Rashod")

(***************************************************************************)
(* C10.  update_all_balances changes balance_after and nothing else: the   *)
(* same records with the same id, type, category, amount, date and         *)
(* description; and a step in which it does not run leaves every stored    *)
(* record as it is.                                                        *)
(***************************************************************************)
C10_OnlyBalances ==
    [][/\ LET after == UpdateAllBalances(transactions)
          IN  /\ Ids(after) = Ids(transactions)
              /\ Cardinality(after) = Cardinality(transactions)
              /\ \A r \in transactions : SameButBalance(r, RowOf(after, r.id))
       /\ \A r \in transactions :
              r.id \in Ids(transactions') => SameButBalance(r, RowOf(transactions', r.id))
       /\ Cardinality(transactions') = Cardinality(Ids(transactions'))
       /\ calls' = 0 => transactions \subseteq transactions'
       /\ (calls' >= 1 /\ response'.kind # "redirect_history") =>
              Ids(transactions') = Ids(transactions)]_vars

\* a delete has recomputed a table that still holds a record
C10_Witness ==
    /\ calls = 1
    /\ response.kind = "redirect_history"
    /\ \E r \in transactions : r.balance_after # 0

====
